---- MODULE Spec2Model ----
(***************************************************************************)
(* The event-driven coordination layer of the Plato emulator               *)
(* (src/src/emulator.rs, fn run): the platform-input poll, the main event  *)
(* queue fed by the gesture-forwarding thread and the clock thread, the    *)
(* dispatcher's match on each event, the auxiliary bus and its flush, the  *)
(* view stack with overlay children, the update tracker, the presentation  *)
(* flags of the context and the two saves at shutdown.                     *)
(***************************************************************************)
EXTENDS Integers, Sequences, FiniteSets, TLC

(***************************************************************************)
(* Bounds of the model.                                                    *)
(***************************************************************************)
\* inputs from outside: key-downs that put a Key event on the main queue, raw
\* pointer inputs sent to the recognizer's channel, ticks of the clock thread
MaxInputs == 2
\* follow-up events the views' handlers enqueue on the bus, in total
MaxFollow == 2

(***************************************************************************)
(* Geometry: a rectangle is its min and max corner.                        *)
(***************************************************************************)
Width == 600
Height == 800

Rect(x0, y0, x1, y1) == [min |-> <<x0, y0>>, max |-> <<x1, y1>>]

NoRect == Rect(0, 0, 0, 0)

\* fb.rect(): the whole screen, from CURRENT_DEVICE.dims
fb_rect == Rect(0, 0, Width, Height)

Min2(a, b) == IF a <= b THEN a ELSE b

Max2(a, b) == IF a >= b THEN a ELSE b

\* Rectangle::absorb: the bounding box of both
absorb(a, b) ==
    Rect(Min2(a.min[1], b.min[1]), Min2(a.min[2], b.min[2]),
         Max2(a.max[1], b.max[1]), Max2(a.max[2], b.max[2]))

\* a covers b: every pixel of b is a pixel of a
Covers(a, b) ==
    /\ a.min[1] <= b.min[1] /\ a.min[2] <= b.min[2]
    /\ b.max[1] <= a.max[1] /\ b.max[2] <= a.max[2]

(***************************************************************************)
(* Events.  kind is the variant, sub and arg its payload (update mode,     *)
(* document info, view id, entry id, key kind and its argument), rect the  *)
(* rectangle of Render, RenderNoWait and Expose.  seq is the position at   *)
(* which the event arrived on the main queue (0 while it is not on it) and *)
(* parent the seq of the event whose handler put it on the bus (0 for an   *)
(* event that did not come through the bus).                               *)
(***************************************************************************)
Ev(kind, sub, arg, rect) ==
    [kind |-> kind, sub |-> sub, arg |-> arg, rect |-> rect,
     seq |-> 0, parent |-> 0]

NoEvent == Ev("None", "", "", NoRect)

Render(rect, mode) == Ev("Render", mode, "", rect)

RenderNoWait(rect, mode) == Ev("RenderNoWait", mode, "", rect)

Expose(rect) == Ev("Expose", "", "", rect)

Open(info) == Ev("Open", info, "", NoRect)

Invalid(info) == Ev("Invalid", info, "", NoRect)

Back == Ev("Back", "", "", NoRect)

Show(id) == Ev("Show", id, "", NoRect)

Close(id) == Ev("Close", id, "", NoRect)

Select(id) == Ev("Select", id, "", NoRect)

Key(kind, arg) == Ev("Key", kind, arg, NoRect)

ClockTick == Ev("ClockTick", "", "", NoRect)

Gesture(g) == Ev("Gesture", g, "", NoRect)

\* what an event is, without the bookkeeping of its arrival
Plain(e) == [e EXCEPT !.seq = 0, !.parent = 0]

(***************************************************************************)
(* Platform input.                                                         *)
(***************************************************************************)
Keycodes ==
    {"LShift", "RShift", "LAlt", "RAlt", "Return", "Left", "Right",
     "Backspace", "Delete", "Escape", "A", "F1"}

\* the keys pressed in the runs explored: a table key, a single-glyph key, the
\* quit key and a key that is neither
PolledKeycodes == {"LShift", "A", "Escape", "F1"}

\* Keycode::name(), as the sequence of its characters
KeycodeName(keycode) ==
    CASE keycode = "A" -> <<"A">>
      [] keycode = "F1" -> <<"F", "1">>
      [] keycode = "Escape" -> <<"E", "s", "c", "a", "p", "e">>
      [] OTHER -> <<"K", "e", "y">>

\* char::to_lowercase().next()
to_lowercase(c) ==
    CASE c = "A" -> "a"
      [] c = "F" -> "f"
      [] OTHER -> c

\* KeyDownEvent without the Escape arm: Escape falls to the default arm
KeyDownEventNoEscape(keycode) ==
    CASE keycode \in {"LShift", "RShift"} -> Ev("Key", "Shift", "", Rect(0, 0, 0, 0))
      [] keycode = "LAlt" -> Ev("Key", "Combine", "", Rect(0, 0, 0, 0))
      [] keycode = "RAlt" -> Ev("Key", "Alternate", "", Rect(0, 0, 0, 0))
      [] keycode = "Return" -> Ev("Key", "Return", "", Rect(0, 0, 0, 0))
      [] keycode = "Left" -> Ev("Key", "Move", "Backward", Rect(0, 0, 0, 0))
      [] keycode = "Right" -> Ev("Key", "Move", "Forward", Rect(0, 0, 0, 0))
      [] keycode = "Backspace" -> Ev("Key", "Delete", "Backward", Rect(0, 0, 0, 0))
      [] keycode = "Delete" -> Ev("Key", "Delete", "Forward", Rect(0, 0, 0, 0))
      [] OTHER ->
           LET name == KeycodeName(keycode) IN
           IF Len(name) = 1
           THEN Ev("Key", "Output", to_lowercase(name[1]), Rect(0, 0, 0, 0))
           ELSE Ev("None", "", "", Rect(0, 0, 0, 0))

\* KeyDownEvent with both Alt keys mapped to Combine
KeyDownEventBothAltCombine(keycode) ==
    CASE keycode \in {"LShift", "RShift"} -> Ev("Key", "Shift", "", Rect(0, 0, 0, 0))
      [] keycode \in {"LAlt", "RAlt"} -> Ev("Key", "Combine", "", Rect(0, 0, 0, 0))
      [] keycode = "Return" -> Ev("Key", "Return", "", Rect(0, 0, 0, 0))
      [] keycode = "Left" -> Ev("Key", "Move", "Backward", Rect(0, 0, 0, 0))
      [] keycode = "Right" -> Ev("Key", "Move", "Forward", Rect(0, 0, 0, 0))
      [] keycode = "Backspace" -> Ev("Key", "Delete", "Backward", Rect(0, 0, 0, 0))
      [] keycode = "Delete" -> Ev("Key", "Delete", "Forward", Rect(0, 0, 0, 0))
      [] keycode = "Escape" -> Ev("break", "", "", Rect(0, 0, 0, 0))
      [] OTHER ->
           LET name == KeycodeName(keycode) IN
           IF Len(name) = 1
           THEN Ev("Key", "Output", to_lowercase(name[1]), Rect(0, 0, 0, 0))
           ELSE Ev("None", "", "", Rect(0, 0, 0, 0))

\* the match on the keycode of a KeyDown: the event sent on tx, "break" for the
\* key that leaves the loop, NoEvent when nothing is sent
KeyBreak == Ev("break", "", "", NoRect)

KeyDownEvent(keycode) ==
    CASE keycode \in {"LShift", "RShift"} -> Key("Shift", "")
      [] keycode = "LAlt" -> Key("Combine", "")
      [] keycode = "RAlt" -> Key("Alternate", "")
      [] keycode = "Return" -> Key("Return", "")
      [] keycode = "Left" -> Key("Move", "Backward")
      [] keycode = "Right" -> Key("Move", "Forward")
      [] keycode = "Backspace" -> Key("Delete", "Backward")
      [] keycode = "Delete" -> Key("Delete", "Forward")
      [] keycode = "Escape" -> KeyBreak
      [] OTHER ->
           LET name == KeycodeName(keycode) IN
           IF Len(name) = 1 THEN Key("Output", to_lowercase(name[1]))
           ELSE NoEvent

\* seconds(timestamp): milliseconds to seconds, kept as an exact fraction
seconds(timestamp) == [num |-> timestamp, den |-> 1000]

Timestamps == {1500}

Positions == {<<10, 20>>}

\* a platform event (SdlEvent): its variant and the fields the loop reads
Sdl(type, keycode, timestamp, pos) ==
    [type |-> type, keycode |-> keycode, timestamp |-> timestamp, pos |-> pos]

\* no platform event: wait_event_timeout returned None
NoSdl == Sdl("None", "", 0, <<0, 0>>)

SdlQuit == Sdl("Quit", "", 0, <<0, 0>>)

KeyDown(keycode) == Sdl("KeyDown", keycode, 0, <<0, 0>>)

\* the platform events device_event translates
MouseEvents ==
    {Sdl(type, "", timestamp, pos) :
        type \in {"MouseButtonDown", "MouseButtonUp", "MouseMotion"},
        timestamp \in Timestamps, pos \in Positions}

\* platform events that are neither Quit, nor a key-down with a keycode, nor a
\* pointer event: a key-up, a key-down without a keycode
OtherSdl == {Sdl("KeyUp", "A", 0, <<0, 0>>), Sdl("KeyDown", "None", 0, <<0, 0>>)}

\* device_event: Some(DeviceEvent::Finger) for the three pointer events
NoDeviceEvent == [id |-> 0, status |-> "None", position |-> <<0, 0>>, time |-> seconds(0)]

device_event(event) ==
    CASE event.type = "MouseButtonDown" ->
           [id |-> 0, status |-> "Down", position |-> event.pos,
            time |-> seconds(event.timestamp)]
      [] event.type = "MouseButtonUp" ->
           [id |-> 0, status |-> "Up", position |-> event.pos,
            time |-> seconds(event.timestamp)]
      [] event.type = "MouseMotion" ->
           [id |-> 0, status |-> "Motion", position |-> event.pos,
            time |-> seconds(event.timestamp)]
      [] OTHER -> NoDeviceEvent

(***************************************************************************)
(* Views.  A top-level view has an identity, a rectangle and an ordered    *)
(* list of children; a child (overlay) has a kind, an optional view id, a  *)
(* rectangle and, for a notification, its message.                         *)
(***************************************************************************)
Child(kind, id, rect, msg) == [kind |-> kind, id |-> id, rect |-> rect, msg |-> msg]

\* Home::new: the root view, covering the screen, with its own top bar
HomeView ==
    [id |-> 0, kind |-> "Home", rect |-> fb_rect,
     children |-> <<Child("TopBar", "", Rect(0, 0, Width, 60), "")>>]

\* Reader::new(fb_rect, info, ..): None for a document that cannot be opened
Infos == {"book", "malformed"}

ReaderOpens(info) == info = "book"

ReaderView(n, info) ==
    [id |-> n, kind |-> "Reader", rect |-> fb_rect, children |-> <<>>]

\* FrontlightWindow::new(&mut context)
FrontlightWindow == Child("FrontlightWindow", "Frontlight", Rect(100, 200, 500, 600), "")

\* Notification::new(id, msg, &mut index, ..): placed by the notification index
Notification(id, msg, index) ==
    Child("Notification", id,
          Rect(150, 100 + 100 * (index % 3), 450, 180 + 100 * (index % 3)), msg)

RECURSIVE FirstIndex(_, _, _)
\* the first index i >= from of seq with P[i], 0 when there is none
FirstIndex(flags, from, n) ==
    IF from > n THEN 0
    ELSE IF flags[from] THEN from
    ELSE FirstIndex(flags, from + 1, n)

\* locate::<T>(view): the first child of kind T
locate(v, kind) ==
    FirstIndex([i \in 1..Len(v.children) |-> v.children[i].kind = kind],
               1, Len(v.children))

\* locate_by_id(view, id): the first child whose id is id
locate_by_id(v, id) ==
    FirstIndex([i \in 1..Len(v.children) |-> v.children[i].id = id],
               1, Len(v.children))

RECURSIVE AbsorbAll(_, _, _)
AbsorbAll(rect, children, i) ==
    IF i > Len(children) THEN rect
    ELSE AbsorbAll(absorb(rect, children[i].rect), children, i + 1)

\* overlapping_rectangle(view): the view's rectangle joined with its children's
overlapping_rectangle(v) == AbsorbAll(v.rect, v.children, 1)

\* Vec::remove(index)
Remove(s, i) == [j \in 1..(Len(s) - 1) |-> IF j < i THEN s[j] ELSE s[j + 1]]

\* FnvHashMap::insert
Insert(m, k, val) == [x \in (DOMAIN m) \cup {k} |-> IF x = k THEN val ELSE m[x]]

\* the map restricted to the keys in keep
Restrict(m, keep) == [x \in keep |-> m[x]]

\* Framebuffer for WindowCanvas::update: presents and returns Ok(1)
update(rect, mode) == 1

(***************************************************************************)
(* What a view's handler may enqueue on the bus.  The views of a run reply *)
(* with the events of one repertoire: all of FollowUps, or one of the four *)
(* smaller repertoires below, each around one concern of the dispatcher.   *)
(***************************************************************************)
FollowUps ==
    {Render(fb_rect, "Partial"), RenderNoWait(fb_rect, "Gui"),
     Open("book"), Open("malformed"), Back,
     Show("Frontlight"), Close("Frontlight"),
     Close("TakeScreenshotNotif"), Close("SortMenu"),
     Select("ToggleInverted"), Select("ToggleMonochrome"),
     Select("TakeScreenshot"), Select("Quit"), Select("Sort")}

\* views that navigate and open the frontlight window
NavigationOffers == {Open("book"), Open("malformed"), Back, Show("Frontlight")}

\* views that open and close overlays
OverlayOffers ==
    {Show("Frontlight"), Close("Frontlight"),
     Select("TakeScreenshot"), Close("TakeScreenshotNotif")}

\* views that ask for renders and toggle the presentation flags
DisplayOffers ==
    {Render(fb_rect, "Partial"), RenderNoWait(fb_rect, "Gui"),
     Select("ToggleInverted"), Select("ToggleMonochrome")}

\* views that open a document and toggle the inverted flag
KeysOffers == {Open("book"), Select("ToggleInverted")}

\* views that navigate and open and close overlays: the frontlight window in
\* one run, the screenshot notification in another
StackOffers ==
    {{Open("book"), Back, Show("Frontlight"), Close("Frontlight")},
     {Open("book"), Back, Select("TakeScreenshot"), Close("TakeScreenshotNotif")}}

\* views that bring about every event that issues a display update
TrackerOffers ==
    {Render(fb_rect, "Partial"), RenderNoWait(fb_rect, "Gui"),
     Select("TakeScreenshot"), Close("TakeScreenshotNotif")}

\* views that reply with an unmatched event only
LiveOffers == {Select("Sort")}

\* views that reply with an unmatched event, Back, Show and Quit
BusOffers == {Select("Sort"), Back, Show("Frontlight"), Select("Quit")}

BoundedSeq(S, n) == UNION {[1..k -> S] : k \in 0..n}

VARIABLES
    offers,             \* the repertoire of follow-ups of this run's views
    pc,                 \* where the dispatcher is in run
    sdl_evt,            \* the platform event of the last poll, until the drain
    rx,                 \* the main event queue (tx, tx2, tx3 -> rx)
    ry,                 \* the raw device events sent to the recognizer (ty -> ry)
    touch,              \* the recognizer's output (touch_screen)
    bus,                \* the auxiliary queue of follow-up events
    cur,                \* the event the dispatcher dequeued last (evt)
    view,               \* the active top-level view
    history,            \* the previously active views
    updating,           \* update token -> rectangle
    inverted,           \* context.inverted
    monochrome,         \* context.monochrome
    frontlight,         \* context.settings.frontlight
    notification_index, \* context.notification_index
    saves,              \* the saves attempted at shutdown, with their outcome
    result,             \* what run returns
    nviews,             \* views constructed so far
    nsent,              \* events that arrived on the main queue so far
    handled,            \* seq of the last event whose match arm completed
    delivered,          \* the deliveries to a view's handler made by the last arm
    enqueued,           \* the follow-ups the last arm's handler put on the bus
    navLog,             \* the Open and Back events dispatched so far
    fresh,              \* whether the last token registered was not in the tracker
    toggles,            \* toggle-inverted and toggle-monochrome events dispatched
    ninputs, nfollow   \* inputs and follow-ups so far, against the bounds

vars ==
    <<offers, pc, sdl_evt, rx, ry, touch, bus, cur, view, history, updating, inverted, monochrome,
      frontlight, notification_index, saves, result, nviews, nsent, handled,
      delivered, enqueued, navLog, fresh, toggles, ninputs, nfollow>>

\* everything but the dispatcher's position, the main queue and its counter
ctxVars == <<inverted, monochrome, frontlight, notification_index>>

stackVars == <<view, history, nviews>>

prodVars == <<ry, touch, ninputs>>

\* the state after the setup of run, before the first poll
Booted ==
    /\ pc = "poll"
    /\ sdl_evt = NoSdl
    /\ rx = <<>>
    /\ ry = <<>>
    /\ touch = <<>>
    /\ bus = <<>>
    /\ cur = NoEvent
    /\ view = HomeView
    /\ history = <<>>
    /\ updating = <<>>
    /\ inverted = FALSE
    /\ monochrome = FALSE
    /\ frontlight \in BOOLEAN
    /\ notification_index = 0
    /\ saves = <<>>
    /\ result = "running"
    /\ nviews = 0
    /\ nsent = 0
    /\ handled = 0
    /\ delivered = <<>>
    /\ enqueued = <<>>
    /\ navLog = <<>>
    /\ fresh = TRUE
    /\ toggles = [inverted |-> 0, monochrome |-> 0]
    /\ ninputs = 0 /\ nfollow = 0

Init == Booted /\ offers = FollowUps

\* tx.send(e): e arrives at the back of the main queue
Send(e) ==
    /\ rx' = Append(rx, [e EXCEPT !.seq = nsent + 1])
    /\ nsent' = nsent + 1

NoSend == UNCHANGED <<rx, nsent>>

(***************************************************************************)
(* The platform-input poll at the top of the outer loop.                   *)
(***************************************************************************)
dispVars ==
    <<offers, bus, cur, view, history, updating, inverted, monochrome, frontlight,
      notification_index, saves, result, nviews, handled, delivered, enqueued, navLog,
      fresh, toggles, nfollow>>

\* wait_event_timeout(20) returns None
PollTimeout ==
    /\ pc = "poll"
    /\ sdl_evt' = NoSdl
    /\ pc' = "drain"
    /\ NoSend
    /\ UNCHANGED <<dispVars, prodVars>>

\* SdlEvent::Quit => break
PollQuit ==
    /\ pc = "poll"
    /\ sdl_evt' = SdlQuit
    /\ pc' = "save_metadata"
    /\ NoSend
    /\ UNCHANGED <<dispVars, prodVars>>

\* SdlEvent::KeyDown { keycode: Some(keycode), .. }, for a key of keys
PollKeyDownOf(keys) ==
    /\ pc = "poll"
    /\ \E keycode \in keys :
         LET e == KeyDownEvent(keycode) IN
         /\ sdl_evt' = KeyDown(keycode)
         /\ IF e = KeyBreak
            THEN /\ pc' = "save_metadata"
                 /\ NoSend
                 /\ UNCHANGED ninputs
            ELSE IF e = NoEvent
            THEN /\ pc' = "drain"
                 /\ NoSend
                 /\ UNCHANGED ninputs
            ELSE /\ ninputs < MaxInputs
                 /\ pc' = "drain"
                 /\ Send(e)
                 /\ ninputs' = ninputs + 1
    /\ UNCHANGED <<dispVars, ry, touch>>

PollKeyDown == PollKeyDownOf(PolledKeycodes)

\* PollOther putting a pointer input on the main queue as well
PollOtherAlsoOnMainQueue ==
    /\ pc = "poll"
    /\ \E sdl \in MouseEvents \cup OtherSdl :
         LET dev_evt == device_event(sdl) IN
         /\ sdl_evt' = sdl
         /\ IF dev_evt # NoDeviceEvent
            THEN /\ ninputs < MaxInputs
                 /\ ry' = Append(ry, dev_evt)
                 /\ Send(Gesture("Tap"))
                 /\ ninputs' = ninputs + 1
            ELSE /\ UNCHANGED <<ry, ninputs>>
                 /\ NoSend
    /\ pc' = "drain"
    /\ UNCHANGED <<dispVars, touch>>

\* any other platform event: a pointer event goes to the recognizer's channel
PollOther ==
    /\ pc = "poll"
    /\ \E sdl \in MouseEvents \cup OtherSdl :
         LET dev_evt == device_event(sdl) IN
         /\ sdl_evt' = sdl
         /\ IF dev_evt # NoDeviceEvent
            THEN /\ ninputs < MaxInputs
                 /\ ry' = Append(ry, dev_evt)
                 /\ ninputs' = ninputs + 1
            ELSE UNCHANGED <<ry, ninputs>>
    /\ pc' = "drain"
    /\ NoSend
    /\ UNCHANGED <<dispVars, touch>>

(***************************************************************************)
(* The producer threads.                                                   *)
(***************************************************************************)
\* gesture_events(ry): consumes a device event, may recognize a gesture
Recognize ==
    /\ pc # "exited"
    /\ ry # <<>>
    /\ ry' = Tail(ry)
    /\ \E out \in {NoEvent, Gesture("Tap")} :
         touch' = IF out = NoEvent THEN touch ELSE Append(touch, out)
    /\ NoSend
    /\ UNCHANGED <<pc, sdl_evt, dispVars, ninputs>>

\* the forwarding thread: touch_screen.recv() then tx2.send(evt)
Forward ==
    /\ pc # "exited"
    /\ touch # <<>>
    /\ Send(Head(touch))
    /\ touch' = Tail(touch)
    /\ UNCHANGED <<pc, sdl_evt, dispVars, ry, ninputs>>

\* the clock thread: sleep, then tx3.send(Event::ClockTick)
Tick ==
    /\ pc # "exited"
    /\ ninputs < MaxInputs
    /\ Send(ClockTick)
    /\ ninputs' = ninputs + 1
    /\ UNCHANGED <<pc, sdl_evt, dispVars, ry, touch>>

(***************************************************************************)
(* The drain of the main queue and the match on the dequeued event.        *)
(***************************************************************************)
\* Recv taking the newest event of the main queue instead of the oldest
RecvNewest ==
    /\ pc = "drain"
    /\ rx # <<>>
    /\ cur' = rx[Len(rx)]
    /\ rx' = SubSeq(rx, 1, Len(rx) - 1)
    /\ pc' = "dispatch"
    /\ sdl_evt' = NoSdl
    /\ UNCHANGED <<offers, nsent, bus, view, history, updating, inverted, monochrome,
                   frontlight, notification_index, saves, result, nviews, handled,
                   delivered, enqueued, navLog, fresh, toggles, nfollow, prodVars>>

\* rx.recv_timeout(20ms) returns Ok(evt)
Recv ==
    /\ pc = "drain"
    /\ rx # <<>>
    /\ cur' = Head(rx)
    /\ rx' = Tail(rx)
    /\ pc' = "dispatch"
    /\ sdl_evt' = NoSdl
    /\ UNCHANGED <<offers, nsent, bus, view, history, updating, inverted, monochrome,
                   frontlight, notification_index, saves, result, nviews, handled,
                   delivered, enqueued, navLog, fresh, toggles, nfollow, prodVars>>

\* rx.recv_timeout(20ms) times out on the empty queue: back to the poll
RecvTimeout ==
    /\ pc = "drain"
    /\ rx = <<>>
    /\ pc' = "poll"
    /\ sdl_evt' = NoSdl
    /\ NoSend
    /\ UNCHANGED <<dispVars, prodVars>>

\* the events the match names; every other event takes the default arm
Matched(e) ==
    \/ e.kind \in {"Render", "RenderNoWait", "Expose", "Open", "Back", "Close"}
    \/ e.kind = "Show" /\ e.sub = "Frontlight"
    \/ e.kind = "Select"
       /\ e.sub \in {"ToggleInverted", "ToggleMonochrome", "TakeScreenshot", "Quit"}

\* the end of a match arm that falls through to the flush of the bus
ArmDone ==
    /\ handled' = cur.seq
    /\ pc' = "flush"
    /\ UNCHANGED <<offers, sdl_evt, cur, frontlight, saves, result, prodVars>>

\* a view's handler receives evt: it may enqueue follow-up events on the bus
Deliver(to, evt) ==
    /\ \E fs \in BoundedSeq(offers, MaxFollow - nfollow) :
         /\ bus' = bus \o [i \in 1..Len(fs) |-> [fs[i] EXCEPT !.parent = cur.seq]]
         /\ nfollow' = nfollow + Len(fs)
         /\ enqueued' = fs
    /\ delivered' = <<[to |-> to, evt |-> evt]>>

NoDeliver ==
    /\ delivered' = <<>>
    /\ enqueued' = <<>>
    /\ UNCHANGED <<bus, nfollow>>

\* render: may wait for outstanding updates and drop the settled ones
render(upd, keep) == Restrict(upd, keep)

\* render_no_wait: waits for nothing
render_no_wait(upd) == upd

\* fill_crack: redraws the background, may wait like render
fill_crack(upd, keep) == Restrict(upd, keep)

\* if let Ok(tok) = fb.update(&rect, mode) { updating.insert(tok, rect); }
Register(upd, rect, mode) ==
    /\ updating' = Insert(upd, update(rect, mode), rect)
    /\ fresh' = (update(rect, mode) \notin DOMAIN upd)

\* Event::Render(rect, mode)
HandleRender ==
    /\ pc = "dispatch" /\ cur.kind = "Render"
    /\ \E keep \in SUBSET (DOMAIN updating) :
         Register(render(updating, keep), cur.rect, cur.sub)
    /\ NoDeliver /\ NoSend /\ ArmDone
    /\ UNCHANGED <<stackVars, ctxVars, navLog, toggles>>

\* Event::RenderNoWait(rect, mode)
HandleRenderNoWait ==
    /\ pc = "dispatch" /\ cur.kind = "RenderNoWait"
    /\ Register(render_no_wait(updating), cur.rect, cur.sub)
    /\ NoDeliver /\ NoSend /\ ArmDone
    /\ UNCHANGED <<stackVars, ctxVars, navLog, toggles>>

\* Event::Expose(rect)
HandleExpose ==
    /\ pc = "dispatch" /\ cur.kind = "Expose"
    /\ \E keep \in SUBSET (DOMAIN updating) :
         Register(fill_crack(updating, keep), cur.rect, "Gui")
    /\ NoDeliver /\ NoSend /\ ArmDone
    /\ UNCHANGED <<stackVars, ctxVars, navLog, toggles>>

\* Event::Open(info), Reader::new returns Some(r)
HandleOpenReader ==
    /\ pc = "dispatch" /\ cur.kind = "Open"
    /\ ReaderOpens(cur.sub)
    /\ history' = Append(history, view)
    /\ view' = ReaderView(nviews + 1, cur.sub)
    /\ nviews' = nviews + 1
    /\ navLog' = Append(navLog, "Open")
    /\ NoDeliver /\ NoSend /\ ArmDone
    /\ UNCHANGED <<updating, fresh, ctxVars, toggles>>

\* HandleOpenInvalid pushing the active view although no reader was built
HandleOpenInvalidPushes ==
    /\ pc = "dispatch" /\ cur.kind = "Open"
    /\ ~ReaderOpens(cur.sub)
    /\ history' = Append(history, view)
    /\ Deliver(view.id, Invalid(cur.sub))
    /\ navLog' = Append(navLog, "Open")
    /\ NoSend /\ ArmDone
    /\ UNCHANGED <<view, nviews, updating, fresh, ctxVars, toggles>>

\* Event::Open(info), Reader::new returns None
HandleOpenInvalid ==
    /\ pc = "dispatch" /\ cur.kind = "Open"
    /\ ~ReaderOpens(cur.sub)
    /\ Deliver(view.id, Invalid(cur.sub))
    /\ navLog' = Append(navLog, "Open")
    /\ NoSend /\ ArmDone
    /\ UNCHANGED <<stackVars, updating, fresh, ctxVars, toggles>>

\* HandleBack without the pop of the history
HandleBackNoPop ==
    /\ pc = "dispatch" /\ cur.kind = "Back"
    /\ UNCHANGED <<view, history>>
    /\ Deliver(view'.id, Plain(cur))
    /\ navLog' = Append(navLog, "Back")
    /\ NoSend /\ ArmDone
    /\ UNCHANGED <<nviews, updating, fresh, ctxVars, toggles>>

\* HandleBack delivering Back to the view that was active before the pop
HandleBackDeliverBeforePop ==
    /\ pc = "dispatch" /\ cur.kind = "Back"
    /\ IF history # <<>>
       THEN /\ view' = history[Len(history)]
            /\ history' = SubSeq(history, 1, Len(history) - 1)
       ELSE UNCHANGED <<view, history>>
    /\ Deliver(view.id, Plain(cur))
    /\ navLog' = Append(navLog, "Back")
    /\ NoSend /\ ArmDone
    /\ UNCHANGED <<nviews, updating, fresh, ctxVars, toggles>>

\* Event::Back
HandleBack ==
    /\ pc = "dispatch" /\ cur.kind = "Back"
    /\ IF history # <<>>
       THEN /\ view' = history[Len(history)]
            /\ history' = SubSeq(history, 1, Len(history) - 1)
       ELSE UNCHANGED <<view, history>>
    /\ Deliver(view'.id, Plain(cur))
    /\ navLog' = Append(navLog, "Back")
    /\ NoSend /\ ArmDone
    /\ UNCHANGED <<nviews, updating, fresh, ctxVars, toggles>>

\* HandleShowFrontlight putting the window in front of the other children
HandleShowFrontlightPrepends ==
    /\ pc = "dispatch" /\ cur.kind = "Show" /\ cur.sub = "Frontlight"
    /\ IF ~frontlight
       THEN /\ pc' = "drain"
            /\ handled' = cur.seq
            /\ NoSend
            /\ UNCHANGED <<offers, view, sdl_evt, cur, frontlight, saves, result,
                           prodVars>>
       ELSE /\ Send(Render(FrontlightWindow.rect, "Gui"))
            /\ view' = [view EXCEPT !.children = <<FrontlightWindow>> \o @]
            /\ ArmDone
    /\ NoDeliver
    /\ UNCHANGED <<history, nviews, updating, fresh, ctxVars, navLog, toggles>>

\* Event::Show(ViewId::Frontlight)
HandleShowFrontlight ==
    /\ pc = "dispatch" /\ cur.kind = "Show" /\ cur.sub = "Frontlight"
    /\ IF ~frontlight
       THEN \* continue: the flush of the bus is skipped
            /\ pc' = "drain"
            /\ handled' = cur.seq
            /\ NoSend
            /\ UNCHANGED <<offers, view, sdl_evt, cur, frontlight, saves, result,
                           prodVars>>
       ELSE /\ Send(Render(FrontlightWindow.rect, "Gui"))
            /\ view' = [view EXCEPT !.children = Append(@, FrontlightWindow)]
            /\ ArmDone
    /\ NoDeliver
    /\ UNCHANGED <<history, nviews, updating, fresh, ctxVars, navLog, toggles>>

\* HandleCloseFrontlight reading the rectangle at index after the removal
HandleCloseFrontlightStaleRect ==
    /\ pc = "dispatch" /\ cur.kind = "Close" /\ cur.sub = "Frontlight"
    /\ LET index == locate(view, "FrontlightWindow")
           rest == Remove(view.children, index)
       IN
       IF index # 0
       THEN /\ view' = [view EXCEPT !.children = rest]
            /\ Send(Expose(IF index <= Len(rest) THEN rest[index].rect
                           ELSE rest[Len(rest)].rect))
       ELSE /\ UNCHANGED view
            /\ NoSend
    /\ NoDeliver /\ ArmDone
    /\ UNCHANGED <<history, nviews, updating, fresh, ctxVars, navLog, toggles>>

\* HandleCloseFrontlight sending an Expose also when no window is found
HandleCloseFrontlightAlwaysExposes ==
    /\ pc = "dispatch" /\ cur.kind = "Close" /\ cur.sub = "Frontlight"
    /\ LET index == locate(view, "FrontlightWindow") IN
       IF index # 0
       THEN /\ view' = [view EXCEPT !.children = Remove(@, index)]
            /\ Send(Expose(view.children[index].rect))
       ELSE /\ UNCHANGED view
            /\ Send(Expose(FrontlightWindow.rect))
    /\ NoDeliver /\ ArmDone
    /\ UNCHANGED <<history, nviews, updating, fresh, ctxVars, navLog, toggles>>

\* Event::Close(ViewId::Frontlight)
HandleCloseFrontlight ==
    /\ pc = "dispatch" /\ cur.kind = "Close" /\ cur.sub = "Frontlight"
    /\ LET index == locate(view, "FrontlightWindow") IN
       IF index # 0
       THEN /\ view' = [view EXCEPT !.children = Remove(@, index)]
            /\ Send(Expose(view.children[index].rect))
       ELSE /\ UNCHANGED view
            /\ NoSend
    /\ NoDeliver /\ ArmDone
    /\ UNCHANGED <<history, nviews, updating, fresh, ctxVars, navLog, toggles>>

\* HandleClose issuing the display update itself, besides sending the Expose
HandleCloseIssuesUpdate ==
    /\ pc = "dispatch" /\ cur.kind = "Close" /\ cur.sub # "Frontlight"
    /\ LET index == locate_by_id(view, cur.sub) IN
       IF index # 0
       THEN /\ Send(Expose(overlapping_rectangle(view)))
            /\ view' = [view EXCEPT !.children = Remove(@, index)]
            /\ Register(updating, overlapping_rectangle(view), "Gui")
       ELSE /\ UNCHANGED <<view, updating, fresh>>
            /\ NoSend
    /\ NoDeliver /\ ArmDone
    /\ UNCHANGED <<history, nviews, ctxVars, navLog, toggles>>

\* HandleClose sending the Expose and leaving the child in place
HandleCloseKeepsChild ==
    /\ pc = "dispatch" /\ cur.kind = "Close" /\ cur.sub # "Frontlight"
    /\ LET index == locate_by_id(view, cur.sub) IN
       IF index # 0
       THEN /\ Send(Expose(overlapping_rectangle(view)))
            /\ UNCHANGED view
       ELSE /\ UNCHANGED view
            /\ NoSend
    /\ NoDeliver /\ ArmDone
    /\ UNCHANGED <<history, nviews, updating, fresh, ctxVars, navLog, toggles>>

\* Event::Close(id)
HandleClose ==
    /\ pc = "dispatch" /\ cur.kind = "Close" /\ cur.sub # "Frontlight"
    /\ LET index == locate_by_id(view, cur.sub) IN
       IF index # 0
       THEN /\ Send(Expose(overlapping_rectangle(view)))
            /\ view' = [view EXCEPT !.children = Remove(@, index)]
       ELSE /\ UNCHANGED view
            /\ NoSend
    /\ NoDeliver /\ ArmDone
    /\ UNCHANGED <<history, nviews, updating, fresh, ctxVars, navLog, toggles>>

\* HandleToggleInverted flipping the monochrome flag as well
HandleToggleInvertedBothFlags ==
    /\ pc = "dispatch" /\ cur.kind = "Select" /\ cur.sub = "ToggleInverted"
    /\ inverted' = ~inverted
    /\ monochrome' = ~monochrome
    /\ toggles' = [toggles EXCEPT !.inverted = @ + 1]
    /\ Send(Render(fb_rect, "Gui"))
    /\ NoDeliver /\ ArmDone
    /\ UNCHANGED <<stackVars, updating, fresh, notification_index, navLog>>

\* Event::Select(EntryId::ToggleInverted)
HandleToggleInverted ==
    /\ pc = "dispatch" /\ cur.kind = "Select" /\ cur.sub = "ToggleInverted"
    /\ inverted' = ~inverted
    /\ toggles' = [toggles EXCEPT !.inverted = @ + 1]
    /\ Send(Render(fb_rect, "Gui"))
    /\ NoDeliver /\ ArmDone
    /\ UNCHANGED <<stackVars, updating, fresh, monochrome, notification_index, navLog>>

\* Event::Select(EntryId::ToggleMonochrome)
HandleToggleMonochrome ==
    /\ pc = "dispatch" /\ cur.kind = "Select" /\ cur.sub = "ToggleMonochrome"
    /\ monochrome' = ~monochrome
    /\ toggles' = [toggles EXCEPT !.monochrome = @ + 1]
    /\ Send(Render(fb_rect, "Gui"))
    /\ NoDeliver /\ ArmDone
    /\ UNCHANGED <<stackVars, updating, fresh, inverted, notification_index, navLog>>

\* HandleTakeScreenshot notifying only when the save succeeded
HandleTakeScreenshotSilentFailure ==
    /\ pc = "dispatch" /\ cur.kind = "Select" /\ cur.sub = "TakeScreenshot"
    /\ \E saved \in BOOLEAN :
         LET notif == Notification("TakeScreenshotNotif", "Saved", notification_index)
         IN IF saved
            THEN /\ view' = [view EXCEPT !.children = Append(@, notif)]
                 /\ notification_index' = notification_index + 1
            ELSE UNCHANGED <<view, notification_index>>
    /\ NoDeliver /\ NoSend /\ ArmDone
    /\ UNCHANGED <<history, nviews, updating, fresh, inverted, monochrome,
                   navLog, toggles>>

\* HandleTakeScreenshot putting the notification on the last view of the history
HandleTakeScreenshotOnPreviousView ==
    /\ pc = "dispatch" /\ cur.kind = "Select" /\ cur.sub = "TakeScreenshot"
    /\ \E saved \in BOOLEAN :
         LET msg == IF saved THEN "Saved" ELSE "Couldn't take screenshot"
             notif == Notification("TakeScreenshotNotif", msg, notification_index)
         IN IF history = <<>>
            THEN /\ view' = [view EXCEPT !.children = Append(@, notif)]
                 /\ UNCHANGED history
            ELSE /\ history' = [history EXCEPT ![Len(history)].children =
                                                    Append(@, notif)]
                 /\ UNCHANGED view
    /\ notification_index' = notification_index + 1
    /\ NoDeliver /\ NoSend /\ ArmDone
    /\ UNCHANGED <<nviews, updating, fresh, inverted, monochrome, navLog, toggles>>

\* Event::Select(EntryId::TakeScreenshot): fb.save succeeds or fails
HandleTakeScreenshot ==
    /\ pc = "dispatch" /\ cur.kind = "Select" /\ cur.sub = "TakeScreenshot"
    /\ \E saved \in BOOLEAN :
         LET msg == IF saved THEN "Saved" ELSE "Couldn't take screenshot"
             notif == Notification("TakeScreenshotNotif", msg, notification_index)
         IN view' = [view EXCEPT !.children = Append(@, notif)]
    /\ notification_index' = notification_index + 1
    /\ NoDeliver /\ NoSend /\ ArmDone
    /\ UNCHANGED <<history, nviews, updating, fresh, inverted, monochrome,
                   navLog, toggles>>

\* HandleQuit handing the event to the active view before the break
HandleQuitAfterDelivery ==
    /\ pc = "dispatch" /\ cur.kind = "Select" /\ cur.sub = "Quit"
    /\ pc' = "save_metadata"
    /\ handled' = cur.seq
    /\ Deliver(view.id, Plain(cur)) /\ NoSend
    /\ UNCHANGED <<offers, sdl_evt, cur, frontlight, saves, result, prodVars, stackVars,
                   updating, fresh, inverted, monochrome, notification_index, navLog,
                   toggles>>

\* Event::Select(EntryId::Quit) => break 'outer
HandleQuit ==
    /\ pc = "dispatch" /\ cur.kind = "Select" /\ cur.sub = "Quit"
    /\ pc' = "save_metadata"
    /\ handled' = cur.seq
    /\ NoDeliver /\ NoSend
    /\ UNCHANGED <<offers, sdl_evt, cur, frontlight, saves, result, prodVars, stackVars,
                   updating, fresh, inverted, monochrome, notification_index, navLog, toggles>>

\* _ => handle_event(view.as_mut(), &evt, &tx, &mut bus, &mut context)
HandleOther ==
    /\ pc = "dispatch" /\ ~Matched(cur)
    /\ Deliver(view.id, Plain(cur))
    /\ NoSend /\ ArmDone
    /\ UNCHANGED <<stackVars, updating, fresh, ctxVars, navLog, toggles>>

\* FlushSend popping the newest entry of the bus instead of the oldest
FlushSendNewest ==
    /\ pc = "flush"
    /\ bus # <<>>
    /\ Send(bus[Len(bus)])
    /\ bus' = SubSeq(bus, 1, Len(bus) - 1)
    /\ UNCHANGED <<offers, pc, sdl_evt, cur, view, history, updating, inverted, monochrome,
                   frontlight, notification_index, saves, result, nviews, handled,
                   delivered, enqueued, navLog, fresh, toggles, nfollow, prodVars>>

\* while let Some(ce) = bus.pop_front() { tx.send(ce) }
FlushSend ==
    /\ pc = "flush"
    /\ bus # <<>>
    /\ Send(Head(bus))
    /\ bus' = Tail(bus)
    /\ UNCHANGED <<offers, pc, sdl_evt, cur, view, history, updating, inverted, monochrome,
                   frontlight, notification_index, saves, result, nviews, handled,
                   delivered, enqueued, navLog, fresh, toggles, nfollow, prodVars>>

\* bus.pop_front() returns None: on to the next item of the main queue
FlushEnd ==
    /\ pc = "flush"
    /\ bus = <<>>
    /\ pc' = "drain"
    /\ NoSend
    /\ UNCHANGED <<sdl_evt, dispVars, prodVars>>

(***************************************************************************)
(* Shutdown: the two saves after the loop.                                 *)
(***************************************************************************)
\* save_json(&context.metadata, path).chain_err(..)?
SaveMetadata ==
    /\ pc = "save_metadata"
    /\ \E ok \in BOOLEAN :
         /\ saves' = Append(saves, [doc |-> "metadata", ok |-> ok])
         /\ IF ok
            THEN /\ pc' = "save_settings"
                 /\ UNCHANGED result
            ELSE /\ pc' = "exited"
                 /\ result' = "Err: Can't save metadata."
    /\ NoSend
    /\ UNCHANGED <<offers, sdl_evt, bus, cur, view, history, updating, inverted, monochrome,
                   frontlight, notification_index, nviews, handled, delivered, enqueued,
                   navLog, fresh, toggles, nfollow, prodVars>>

\* save_json(&context.settings, path).chain_err(..)?; Ok(())
SaveSettings ==
    /\ pc = "save_settings"
    /\ \E ok \in BOOLEAN :
         /\ saves' = Append(saves, [doc |-> "settings", ok |-> ok])
         /\ result' = IF ok THEN "Ok" ELSE "Err: Can't save settings."
    /\ pc' = "exited"
    /\ NoSend
    /\ UNCHANGED <<offers, sdl_evt, bus, cur, view, history, updating, inverted, monochrome,
                   frontlight, notification_index, nviews, handled, delivered, enqueued,
                   navLog, fresh, toggles, nfollow, prodVars>>

Poll == PollTimeout \/ PollQuit \/ PollKeyDown \/ PollOther

\* the loop around the match: the poll, the producers, the drain, the flush, the saves
Loop ==
    \/ Poll
    \/ Recognize \/ Forward \/ Tick
    \/ Recv \/ RecvTimeout
    \/ FlushSend \/ FlushEnd
    \/ SaveMetadata \/ SaveSettings

Dispatch ==
    \/ HandleRender \/ HandleRenderNoWait \/ HandleExpose
    \/ HandleOpenReader \/ HandleOpenInvalid \/ HandleBack
    \/ HandleShowFrontlight \/ HandleCloseFrontlight \/ HandleClose
    \/ HandleToggleInverted \/ HandleToggleMonochrome
    \/ HandleTakeScreenshot \/ HandleQuit \/ HandleOther

Next == Loop \/ Dispatch

Spec == Init /\ [][Next]_vars

(***************************************************************************)
(* The runs with one of the smaller repertoires.  Each next-state relation *)
(* has the loop and the match arms whose events the repertoire can bring   *)
(* about; ArmsComplete says no dequeued event is left without its arm.     *)
(***************************************************************************)
InitNavigation == Booted /\ offers = NavigationOffers

DispatchNavigation ==
    \/ HandleOpenReader \/ HandleOpenInvalid \/ HandleBack
    \/ HandleShowFrontlight \/ HandleRender \/ HandleOther

NextNavigation == Loop \/ DispatchNavigation

SpecNavigation == InitNavigation /\ [][NextNavigation]_vars

InitOverlay == Booted /\ offers = OverlayOffers

DispatchOverlay ==
    \/ HandleShowFrontlight \/ HandleCloseFrontlight \/ HandleClose
    \/ HandleTakeScreenshot \/ HandleRender \/ HandleExpose \/ HandleOther

NextOverlay == Loop \/ DispatchOverlay

SpecOverlay == InitOverlay /\ [][NextOverlay]_vars

InitDisplay == Booted /\ offers = DisplayOffers

DispatchDisplay ==
    \/ HandleRender \/ HandleRenderNoWait
    \/ HandleToggleInverted \/ HandleToggleMonochrome \/ HandleOther

NextDisplay == Loop \/ DispatchDisplay

SpecDisplay == InitDisplay /\ [][NextDisplay]_vars

InitBus == Booted /\ offers = BusOffers

DispatchBus ==
    \/ HandleBack \/ HandleShowFrontlight \/ HandleRender
    \/ HandleQuit \/ HandleOther

NextBus == Loop \/ DispatchBus

SpecBus == InitBus /\ [][NextBus]_vars

\* the runs in which every key of Keycodes is pressed
InitKeys == Booted /\ offers = KeysOffers

PollKeys == PollTimeout \/ PollQuit \/ PollKeyDownOf(Keycodes) \/ PollOther

DispatchKeys ==
    \/ HandleOpenReader \/ HandleToggleInverted \/ HandleRender \/ HandleOther

NextKeys ==
    \/ PollKeys
    \/ Recognize \/ Forward \/ Tick
    \/ Recv \/ RecvTimeout
    \/ DispatchKeys
    \/ FlushSend \/ FlushEnd
    \/ SaveMetadata \/ SaveSettings

SpecKeys == InitKeys /\ [][NextKeys]_vars

InitStack == Booted /\ offers \in StackOffers

DispatchStack ==
    \/ HandleOpenReader \/ HandleBack
    \/ HandleShowFrontlight \/ HandleCloseFrontlight \/ HandleClose
    \/ HandleTakeScreenshot \/ HandleRender \/ HandleExpose \/ HandleOther

NextStack == Loop \/ DispatchStack

SpecStack == InitStack /\ [][NextStack]_vars

InitTracker == Booted /\ offers = TrackerOffers

DispatchTracker ==
    \/ HandleRender \/ HandleRenderNoWait \/ HandleExpose
    \/ HandleTakeScreenshot \/ HandleClose \/ HandleOther

NextTracker == Loop \/ DispatchTracker

SpecTracker == InitTracker /\ [][NextTracker]_vars

(***************************************************************************)
(* The runs without a bound on the follow-ups, under the fairness of the   *)
(* scheduling: the dispatcher thread, the recognizer, the forwarding       *)
(* thread and the clock thread each take their next step when they can.    *)
(* MaxFollow bounds the follow-ups between two renumberings: while the     *)
(* main queue is empty the arrival numbers start again from the event      *)
(* being dispatched, which keeps the numbers, and the states, finite.      *)
(***************************************************************************)
InitLive == Booted /\ offers = LiveOffers

\* arrival numbers and the count of follow-ups start again; nothing the
\* program holds changes
Renumber ==
    /\ pc = "dispatch"
    /\ rx = <<>>
    /\ cur.seq > 1
    /\ cur' = [cur EXCEPT !.seq = 1, !.parent = 0]
    /\ nsent' = 1
    /\ handled' = 0
    /\ nfollow' = 0
    /\ UNCHANGED <<offers, pc, sdl_evt, rx, ry, touch, bus, view, history, updating,
                   inverted, monochrome, frontlight, notification_index, saves,
                   result, nviews, delivered, enqueued, navLog, fresh, toggles,
                   ninputs>>

DispatchLive == HandleOther

\* the steps of the dispatcher thread
Dispatcher ==
    \/ Poll
    \/ Recv \/ RecvTimeout
    \/ DispatchLive
    \/ FlushSend \/ FlushEnd
    \/ SaveMetadata \/ SaveSettings

NextLive == Dispatcher \/ Recognize \/ Forward \/ Tick \/ Renumber

SpecLive ==
    /\ InitLive
    /\ [][NextLive]_vars
    /\ WF_vars(Dispatcher)
    /\ WF_vars(Recognize)
    /\ WF_vars(Forward)
    /\ WF_vars(Tick)

\* the arms of each relation cover every event its runs dequeue
ArmsComplete ==
    pc = "dispatch" =>
        CASE offers = NavigationOffers -> ENABLED DispatchNavigation
          [] offers = OverlayOffers -> ENABLED DispatchOverlay
          [] offers = DisplayOffers -> ENABLED DispatchDisplay
          [] offers = BusOffers -> ENABLED DispatchBus
          [] offers = LiveOffers -> ENABLED DispatchLive
          [] offers = TrackerOffers -> ENABLED DispatchTracker
          [] offers \in StackOffers -> ENABLED DispatchStack
          [] offers = KeysOffers -> ENABLED DispatchKeys
          [] OTHER -> ENABLED Dispatch

(***************************************************************************)
(* Properties.                                                             *)
(***************************************************************************)
\* the dispatcher's step that runs the match arm of the dequeued event
Dispatches(kind, subs) ==
    /\ pc = "dispatch"
    /\ pc' # "dispatch"
    /\ cur.kind = kind
    /\ cur.sub \in subs

\* the event at the back of the main queue
LastOf(q) == q[Len(q)]

\* exactly e was sent on tx by the step, and nothing went on the bus
SentOnly(e) ==
    /\ rx' = Append(rx, [e EXCEPT !.seq = nsent + 1])
    /\ bus' = bus

\* C1, as stated: while a follow-up F of E waits on the main queue, no event that
\* arrived after E is dispatched unless it is itself a follow-up of E.
C1_FollowUpsBeforeLaterArrivals ==
    pc = "dispatch" =>
        \A i \in DOMAIN rx :
            (rx[i].parent # 0 /\ cur.seq > rx[i].parent)
                => cur.parent = rx[i].parent

\* C1, amended: a follow-up is dispatched only after the match arm of the event
\* E that enqueued it has completed, it reaches the main queue behind every event
\* already waiting there, and the main queue is dispatched in arrival order, so
\* a follow-up is dispatched before every event that arrived after it was flushed.
C1_FollowUpsInArrivalOrder ==
    /\ \A i, j \in DOMAIN rx : i < j => rx[i].seq < rx[j].seq
    /\ \A i \in DOMAIN rx :
          /\ rx[i].parent < rx[i].seq
          /\ rx[i].parent # 0 => rx[i].parent <= handled
    /\ \A i \in DOMAIN bus : bus[i].parent = cur.seq /\ bus[i].seq = 0
    /\ pc = "dispatch" =>
          /\ handled < cur.seq
          /\ cur.parent <= handled
          /\ \A i \in DOMAIN rx : cur.seq < rx[i].seq

\* a follow-up of E waits on the main queue while an event that arrived after E,
\* and is no follow-up of E, is being dispatched ahead of it
C1_Witness ==
    /\ pc = "dispatch"
    /\ \E i \in DOMAIN rx :
          /\ rx[i].parent # 0
          /\ rx[i].parent <= handled
          /\ cur.parent # rx[i].parent
          /\ rx[i].parent < cur.seq
          /\ cur.seq < rx[i].seq

\* n Open events followed by n Back events
OpensThenBacks(log) ==
    \E n \in 0..Len(log) :
        /\ Len(log) = 2 * n
        /\ \A i \in 1..n : log[i] = "Open"
        /\ \A i \in (n + 1)..(2 * n) : log[i] = "Back"

\* C2: once the navigation events dispatched are n Opens followed by n Backs,
\* the active view is the root view and the history is empty.
C2_OpensThenBacksReturnToRoot ==
    OpensThenBacks(navLog) => (view.id = HomeView.id /\ view.kind = "Home" /\ history = <<>>)

\* a reader was opened from the root and Back has returned to the root
C2_Witness ==
    /\ navLog = <<"Open", "Back">>
    /\ nviews = 1
    /\ view.id = HomeView.id
    /\ history = <<>>

\* C3: the Back arm delivers Back exactly once, to the view that is active
\* after the pop: with history the last pushed view is popped and becomes active
\* and it, not the previously active view, receives Back; with no history the
\* active view and the depth stay and the active view receives Back.
C3_BackDeliveredOnceToActiveAfterPop ==
    [][Dispatches("Back", {""}) =>
          /\ delivered' = <<[to |-> view'.id, evt |-> Back]>>
          /\ IF history # <<>>
             THEN /\ view' = LastOf(history)
                  /\ history' = SubSeq(history, 1, Len(history) - 1)
                  /\ Len(history') = Len(history) - 1
                  /\ delivered'[1].to # view.id
             ELSE /\ view' = view
                  /\ history' = <<>>]_vars

\* Back was dispatched with a reader active: the root was restored and got Back
C3_Witness ==
    /\ pc = "flush"
    /\ cur.kind = "Back"
    /\ handled = cur.seq
    /\ nviews >= 1
    /\ delivered = <<[to |-> HomeView.id, evt |-> Back]>>

\* C4: Open(info) for a document the reader cannot open pushes nothing, keeps the
\* active view, delivers exactly one Invalid(info) to it and stays in the loop;
\* when the reader opens, the active view is pushed, the new view is active and
\* no Invalid is delivered.
C4_OpenFailureDeliversInvalid ==
    [][Dispatches("Open", Infos) =>
          IF ~ReaderOpens(cur.sub)
          THEN /\ history' = history
               /\ view' = view
               /\ delivered' = <<[to |-> view.id, evt |-> Invalid(cur.sub)]>>
               /\ pc' = "flush"
          ELSE /\ history' = Append(history, view)
               /\ view' # view
               /\ view'.id # view.id
               /\ \A i \in DOMAIN history : view'.id # history[i].id
               /\ delivered' = <<>>]_vars

\* Open of the malformed document was dispatched on the root view
C4_Witness ==
    /\ pc = "flush"
    /\ cur.kind = "Open"
    /\ handled = cur.seq
    /\ history = <<>>
    /\ delivered = <<[to |-> HomeView.id, evt |-> Invalid("malformed")]>>

C6_TokensFresh == fresh

\* C7: each toggle-inverted flips inverted once, keeps monochrome and sends
\* exactly one Render of the whole screen; symmetrically for toggle-monochrome;
\* so each flag is the parity of the number of its toggles dispatched.
C7_ToggleFlipsOnceAndRenders ==
    /\ [](/\ inverted = (toggles.inverted % 2 = 1)
          /\ monochrome = (toggles.monochrome % 2 = 1))
    /\ [][Dispatches("Select", {"ToggleInverted"}) =>
             /\ inverted' = ~inverted
             /\ monochrome' = monochrome
             /\ toggles'.inverted = toggles.inverted + 1
             /\ SentOnly(Render(fb_rect, "Gui"))]_vars
    /\ [][Dispatches("Select", {"ToggleMonochrome"}) =>
             /\ monochrome' = ~monochrome
             /\ inverted' = inverted
             /\ toggles'.monochrome = toggles.monochrome + 1
             /\ SentOnly(Render(fb_rect, "Gui"))]_vars

\* toggle-inverted was dispatched once: the flag is set and the Render is queued
C7_Witness ==
    /\ pc = "flush"
    /\ cur = [Select("ToggleInverted") EXCEPT !.seq = cur.seq, !.parent = cur.parent]
    /\ handled = cur.seq
    /\ toggles.inverted = 1
    /\ inverted
    /\ ~monochrome
    /\ rx # <<>>
    /\ LastOf(rx) = [Render(fb_rect, "Gui") EXCEPT !.seq = nsent]

\* C8: take-screenshot appends exactly one notification to the active view's
\* children whether the save succeeds or fails, stays in the loop and changes
\* neither the history nor which view is active.
C8_ScreenshotAlwaysNotifies ==
    [][Dispatches("Select", {"TakeScreenshot"}) =>
          /\ Len(view'.children) = Len(view.children) + 1
          /\ SubSeq(view'.children, 1, Len(view.children)) = view.children
          /\ LastOf(view'.children).kind = "Notification"
          /\ LastOf(view'.children).id = "TakeScreenshotNotif"
          /\ view'.id = view.id
          /\ history' = history
          /\ pc' = "flush"]_vars

\* the save failed and the notification reporting it is the last child
C8_Witness ==
    /\ pc = "flush"
    /\ cur.kind = "Select" /\ cur.sub = "TakeScreenshot"
    /\ handled = cur.seq
    /\ view.children # <<>>
    /\ LastOf(view.children).kind = "Notification"
    /\ LastOf(view.children).msg = "Couldn't take screenshot"

\* C9: when run has returned, both saves were attempted, and a failed save is
\* the error run returns.
C9_BothSavesAttempted ==
    pc = "exited" =>
        /\ {saves[i].doc : i \in DOMAIN saves} = {"metadata", "settings"}
        /\ (\E i \in DOMAIN saves : ~saves[i].ok) => result # "Ok"

\* the platform events that leave the loop
IsQuitInput(sdl) == sdl = SdlQuit \/ sdl = KeyDown("Escape")

Leaving == {"save_metadata", "save_settings", "exited"}

\* C10: a polled Escape or OS quit, and a dequeued Select(quit), end the loop at
\* once and put nothing on the main queue; after that no event is dequeued or
\* handled and the view stack, the tracker and the flags do not change.
C10_QuitEndsDispatch ==
    /\ [](\A i \in DOMAIN rx : rx[i].kind \notin {"break", "Quit", "None"})
    /\ [][(pc = "poll" /\ IsQuitInput(sdl_evt')) =>
             /\ pc' = "save_metadata"
             /\ UNCHANGED <<rx, ry, bus, cur, handled, delivered>>
             /\ UNCHANGED <<view, history, updating, inverted, monochrome>>]_vars
    /\ [][Dispatches("Select", {"Quit"}) =>
             /\ pc' = "save_metadata"
             /\ delivered' = <<>>
             /\ UNCHANGED <<rx, bus>>
             /\ UNCHANGED <<view, history, updating, inverted, monochrome>>]_vars
    /\ [][(pc \in Leaving) =>
             /\ pc' \in Leaving
             /\ UNCHANGED <<cur, bus, handled, delivered>>
             /\ UNCHANGED <<view, history, updating, inverted, monochrome>>
             /\ Len(rx') >= Len(rx)
             /\ SubSeq(rx', 1, Len(rx)) = rx]_vars

\* Escape was polled while an event waited on the main queue; run has returned
\* and the event is still there
C10_Witness ==
    /\ pc = "exited"
    /\ sdl_evt = KeyDown("Escape")
    /\ rx # <<>>
    /\ handled < rx[1].seq

\* the poll step: the step that leaves the poll, with the platform event it took
Polls(types) ==
    /\ pc = "poll"
    /\ pc' # "poll"
    /\ sdl_evt'.type \in types

PointerTypes == {"MouseButtonDown", "MouseButtonUp", "MouseMotion"}

\* C11: a polled pointer input is sent once to the recognizer's channel and
\* nowhere else; no other polled input reaches that channel; and a gesture
\* arrives on the main queue only by the forwarding thread relaying the head of
\* the recognizer's output.
C11_PointerInputOnlyToRecognizer ==
    /\ [][Polls(PointerTypes) =>
             /\ ry' = Append(ry, device_event(sdl_evt'))
             /\ device_event(sdl_evt') # NoDeviceEvent
             /\ UNCHANGED <<rx, bus, touch, cur>>]_vars
    /\ [][Polls({"None", "Quit", "KeyDown", "KeyUp"}) => ry' = ry]_vars
    /\ [][(Len(rx') > Len(rx) /\ LastOf(rx').kind = "Gesture") =>
             /\ touch # <<>>
             /\ touch' = Tail(touch)
             /\ Plain(LastOf(rx')) = Head(touch)
             /\ UNCHANGED <<pc, ry, bus>>]_vars
    /\ [](\A i \in DOMAIN rx : rx[i].kind \notin {"Finger", "Down", "Up", "Motion"})

\* a button-down was polled: its device event waits on the recognizer's channel
\* and the main queue is still empty
C11_Witness ==
    /\ pc = "drain"
    /\ sdl_evt.type = "MouseButtonDown"
    /\ ry = <<device_event(sdl_evt)>>
    /\ ry[1].status = "Down"
    /\ rx = <<>>
    /\ nsent = 0

\* the declared table of the key mapper; NoEvent where nothing is enqueued
DeclaredKey ==
    [keycode \in Keycodes |->
        CASE keycode = "LShift" -> Key("Shift", "")
          [] keycode = "RShift" -> Key("Shift", "")
          [] keycode = "LAlt" -> Key("Combine", "")
          [] keycode = "RAlt" -> Key("Alternate", "")
          [] keycode = "Return" -> Key("Return", "")
          [] keycode = "Left" -> Key("Move", "Backward")
          [] keycode = "Right" -> Key("Move", "Forward")
          [] keycode = "Backspace" -> Key("Delete", "Backward")
          [] keycode = "Delete" -> Key("Delete", "Forward")
          [] keycode = "A" -> Key("Output", "a")
          [] keycode = "F1" -> NoEvent
          [] keycode = "Escape" -> NoEvent]

\* C12: a key-down of keycode k, polled in any state of the dispatcher, puts on
\* the main queue exactly the one Key event the declared table gives for k, and
\* nothing for a key outside the table; it touches no other queue and nothing
\* the dispatcher owns.
C12_KeyMapIsTheDeclaredTable ==
    [][(Polls({"KeyDown"}) /\ sdl_evt'.keycode \in Keycodes) =>
          LET e == DeclaredKey[sdl_evt'.keycode] IN
          /\ IF e = NoEvent
             THEN rx' = rx /\ nsent' = nsent
             ELSE rx' = Append(rx, [e EXCEPT !.seq = nsent + 1])
          /\ UNCHANGED <<ry, touch, bus, cur>>
          /\ UNCHANGED <<view, history, updating, inverted, monochrome>>]_vars

\* Right was pressed with a reader open and the inverted flag set: the Move
\* forward it maps to is the newest event of the main queue
C12_Witness ==
    /\ pc = "drain"
    /\ sdl_evt = KeyDown("Right")
    /\ history # <<>>
    /\ inverted
    /\ rx # <<>>
    /\ Plain(LastOf(rx)) = Key("Move", "Forward")

\* what C13 says Show(Frontlight) does: the window becomes the last child of
\* the active view and exactly one Render of its rectangle is sent
ShowsFrontlight ==
    /\ view' = [view EXCEPT !.children = Append(@, FrontlightWindow)]
    /\ LastOf(view'.children).kind = "FrontlightWindow"
    /\ SentOnly(Render(FrontlightWindow.rect, "Gui"))
    /\ history' = history

\* C13, as stated: every dispatched Show(Frontlight) appends the window and
\* sends the Render.
C13_EveryShowAppendsAndRenders ==
    [][Dispatches("Show", {"Frontlight"}) => ShowsFrontlight]_vars

\* C13, amended: with the frontlight setting enabled Show(Frontlight) appends
\* the window as the last child and sends exactly one Render of its rectangle;
\* with the setting disabled it changes no view, sends nothing and the
\* dispatcher goes on to the next event of the main queue.
C13_ShowAppendsWhenFrontlightEnabled ==
    [][Dispatches("Show", {"Frontlight"}) =>
          IF frontlight
          THEN ShowsFrontlight /\ pc' = "flush"
          ELSE /\ UNCHANGED <<view, history, rx, bus, updating>>
               /\ pc' = "drain"]_vars

\* Show(Frontlight) was dispatched with the setting enabled: the window is the
\* last child, behind the top bar, and its Render is on the main queue
C13_Witness ==
    /\ pc = "flush"
    /\ cur.kind = "Show" /\ cur.sub = "Frontlight"
    /\ handled = cur.seq
    /\ frontlight
    /\ Len(view.children) >= 2
    /\ LastOf(view.children) = FrontlightWindow
    /\ rx # <<>>
    /\ LastOf(rx) = [Render(FrontlightWindow.rect, "Gui") EXCEPT !.seq = nsent]

\* the dispatcher's step for an overlay event: Show, Close, take-screenshot
DispatchesOverlayEvent ==
    \/ Dispatches("Show", {"Frontlight"})
    \/ Dispatches("Close", {"Frontlight", "TakeScreenshotNotif", "SortMenu"})
    \/ Dispatches("Select", {"TakeScreenshot"})

\* C14: Show, Close and take-screenshot leave the history, with the children of
\* every view in it, as it was, and keep the same view active, changing at most
\* its children; the history changes only by a successful Open pushing the
\* active view and by Back popping the last view of a non-empty history.
C14_OverlaysLeaveHistoryAlone ==
    /\ [][DispatchesOverlayEvent =>
             /\ history' = history
             /\ Len(history') = Len(history)
             /\ view' = [view EXCEPT !.children = view'.children]]_vars
    /\ [][history' # history =>
             \/ /\ Dispatches("Open", Infos)
                /\ ReaderOpens(cur.sub)
                /\ history' = Append(history, view)
                /\ Len(history') = Len(history) + 1
             \/ /\ Dispatches("Back", {""})
                /\ history # <<>>
                /\ history' = SubSeq(history, 1, Len(history) - 1)
                /\ Len(history') = Len(history) - 1
                /\ Len(history') >= 0]_vars

\* take-screenshot was dispatched with a reader open: the notification is a
\* child of the reader and the root waits in the history with its top bar only
C14_Witness ==
    /\ pc = "flush"
    /\ cur.kind = "Select" /\ cur.sub = "TakeScreenshot"
    /\ handled = cur.seq
    /\ history = <<HomeView>>
    /\ view.kind = "Reader"
    /\ Len(view.children) = 1
    /\ view.children[1].kind = "Notification"

\* the step adds an entry to the update tracker or replaces the rectangle of one
Populates ==
    \E tok \in DOMAIN updating' :
        tok \notin DOMAIN updating \/ updating'[tok] # updating[tok]

\* the step registers the rectangle of the dequeued event under update's token
RegistersDequeued ==
    /\ update(cur.rect, cur.sub) \in DOMAIN updating'
    /\ updating'[update(cur.rect, cur.sub)] = cur.rect

\* C15, as stated: only the dispatch of a Render or a RenderNoWait adds or
\* replaces an entry of the update tracker.
C15_OnlyRendersPopulateTracker ==
    [][Populates =>
          (Dispatches("Render", {"Gui", "Partial"})
              \/ Dispatches("RenderNoWait", {"Gui", "Partial"}))]_vars

\* C15, amended: only the dispatch of a Render, a RenderNoWait or an Expose adds
\* or replaces an entry of the update tracker, and each of them registers the
\* rectangle of its event; no other event and no producer thread does.
C15_OnlyUpdatesPopulateTracker ==
    /\ [][Populates =>
             \/ Dispatches("Render", {"Gui", "Partial"})
             \/ Dispatches("RenderNoWait", {"Gui", "Partial"})
             \/ Dispatches("Expose", {""})]_vars
    /\ [][(\/ Dispatches("Render", {"Gui", "Partial"})
           \/ Dispatches("RenderNoWait", {"Gui", "Partial"})
           \/ Dispatches("Expose", {""})) => RegistersDequeued]_vars
    /\ [][(pc # "dispatch") => updating' = updating]_vars

\* the Expose of a closed notification was dispatched on the empty tracker:
\* the tracker now holds the exposed rectangle
C15_Witness ==
    /\ pc = "flush"
    /\ cur.kind = "Expose"
    /\ handled = cur.seq
    /\ fresh
    /\ DOMAIN updating = {update(cur.rect, "Gui")}
    /\ updating[update(cur.rect, "Gui")] = cur.rect
    /\ locate_by_id(view, "TakeScreenshotNotif") = 0

RECURSIVE FollowUpsOn(_, _)
\* the events of queue q that the handler of event number p enqueued, in the
\* order they have in q, without the bookkeeping of their arrival
FollowUpsOn(q, p) ==
    IF q = <<>> THEN <<>>
    ELSE IF Head(q).parent = p
         THEN <<Plain(Head(q))>> \o FollowUpsOn(Tail(q), p)
         ELSE FollowUpsOn(Tail(q), p)

\* C16: during the flush that follows the handling of an event, the follow-ups
\* its handler enqueued are, in the order of their enqueueing, those already on
\* the main queue followed by those still on the bus; the flush ends only with
\* the bus empty and all of them on the main queue, once each; the next event
\* is dequeued only then, and it is the head of the main queue, so follow-ups
\* are dispatched in the order they were enqueued.
C16_FlushKeepsEnqueueOrder ==
    /\ [](pc = "flush" =>
             FollowUpsOn(rx, cur.seq) \o FollowUpsOn(bus, cur.seq) = enqueued)
    /\ [](Len(FollowUpsOn(bus, cur.seq)) = Len(bus))
    /\ [][(pc = "flush" /\ pc' # "flush") =>
             /\ bus = <<>>
             /\ FollowUpsOn(rx', cur.seq) = enqueued]_vars
    /\ [][(pc = "drain" /\ pc' = "dispatch") =>
             /\ bus = <<>>
             /\ cur' = Head(rx)
             /\ rx' = Tail(rx)]_vars
    /\ [](\A i, j \in DOMAIN rx :
             (i < j /\ rx[i].parent = rx[j].parent) => rx[i].seq < rx[j].seq)

\* two different follow-ups of one handler were flushed while a clock tick
\* arrived between them: they are on the main queue in the order of their
\* enqueueing, the tick between them
C16_Witness ==
    /\ pc = "flush"
    /\ bus = <<>>
    /\ Len(enqueued) = 2
    /\ enqueued[1] # enqueued[2]
    /\ Len(rx) = 3
    /\ Plain(rx[1]) = enqueued[1]
    /\ rx[2].kind = "ClockTick"
    /\ Plain(rx[3]) = enqueued[2]
    /\ rx[1].parent = cur.seq /\ rx[3].parent = cur.seq

\* the arrival numbers events can carry in the runs of SpecLive
LiveSeqs == 1..(1 + MaxInputs + MaxFollow)

\* every event at the head of the main queue is eventually dispatched, unless
\* the loop is left
EveryEventDispatched ==
    \A n \in LiveSeqs :
        (rx # <<>> /\ Head(rx).seq = n)
            ~> ((pc = "dispatch" /\ cur.seq = n) \/ pc \in Leaving)

\* the dispatcher always comes back to the poll of the platform input, unless
\* the loop is left
AlwaysPollsAgain == []<>(pc = "poll" \/ pc \in Leaving)

\* C17: under fair scheduling, while the loop has not been left, every event
\* on the main queue is eventually dispatched, and the platform input is
\* eventually polled again, also while follow-ups keep arriving.
C17_LoopStaysResponsive == EveryEventDispatched /\ AlwaysPollsAgain

\* C18: the bus holds entries only between a match arm and the end of the
\* flush that follows it: it is empty at the poll, at every dequeue from the
\* main queue, when the arm of the dequeued event starts, and from the moment
\* the loop is left, whichever path the dispatch took.
C18_BusEmptyOutsideFlush ==
    /\ pc \in {"poll", "drain", "dispatch"} \cup Leaving => bus = <<>>
    /\ (pc = "drain" /\ cur.kind = "Show" /\ handled = cur.seq /\ ~frontlight)
           => bus = <<>>
    /\ (pc \in Leaving /\ cur.kind = "Select" /\ cur.sub = "Quit"
           /\ handled = cur.seq) => bus = <<>>

\* Show(Frontlight), itself a follow-up, was dispatched with the setting
\* disabled: the flush was skipped and the dispatcher is back at the drain with
\* the bus empty and an event waiting on the main queue
C18_Witness ==
    /\ pc = "drain"
    /\ cur.kind = "Show" /\ cur.sub = "Frontlight"
    /\ cur.parent # 0
    /\ handled = cur.seq
    /\ ~frontlight
    /\ bus = <<>>
    /\ rx # <<>>

\* the step puts an Expose on the main queue
SendsExpose ==
    /\ Len(rx') = Len(rx) + 1
    /\ LastOf(rx').kind = "Expose"

\* child c is what Close(id) looks for
Closes(id, c) ==
    IF id = "Frontlight" THEN c.kind = "FrontlightWindow" ELSE c.id = id

\* C19: an Expose reaches the main queue only in the step of a Close arm, the
\* step in which a matching overlay leaves the children of the active view,
\* for Close(Frontlight) and for Close by identifier; it is dispatched
\* only after it was dequeued from the main queue, by a later step of the same
\* dispatcher; and no step of a producer thread changes a view in between.
C19_ExposeDispatchedAfterRemoval ==
    /\ [][SendsExpose =>
             /\ Dispatches("Close", {"Frontlight", "TakeScreenshotNotif"})
             /\ pc' = "flush"
             /\ \E i \in DOMAIN view.children :
                   /\ Closes(cur.sub, view.children[i])
                   /\ view' = [view EXCEPT !.children = Remove(@, i)]]_vars
    /\ [][(pc' = "dispatch" /\ cur'.kind = "Expose" /\ cur' # cur) =>
             /\ pc = "drain"
             /\ rx # <<>>
             /\ cur' = Head(rx)
             /\ view' = view]_vars
    /\ [][(view' # view \/ history' # history) => pc = "dispatch"]_vars
    /\ [](pc = "dispatch" /\ cur.kind = "Expose" => cur.seq <= nsent /\ cur.seq > handled)

\* the Expose sent by the Close of the screenshot notification is being
\* dispatched: the notification is no child of the active view any more, and
\* another event arrived behind the Expose meanwhile
C19_Witness ==
    /\ pc = "dispatch"
    /\ cur.kind = "Expose"
    /\ cur.rect = overlapping_rectangle(view)
    /\ notification_index = 1
    /\ locate_by_id(view, "TakeScreenshotNotif") = 0
    /\ rx # <<>>

\* the overlays among the children of v that Close(id) looks for
Matching(v, id) == {i \in DOMAIN v.children : Closes(id, v.children[i])}

====
